---- MODULE Spec2Model ----
(***************************************************************************)
(* include_js: validated JavaScript text (JSStr / JSString), the          *)
(* include_js! macro and the JSTemplate derive.                            *)
(*                                                                         *)
(* A text is a sequence of tokens.  The two external collaborators are     *)
(* modelled by what the code relies on:                                    *)
(*   - boa::parse, the syntax oracle, by a small deterministic grammar of  *)
(*     JavaScript statements (boa_parse);                                   *)
(*   - Handlebars in strict mode with its default escape function, by      *)
(*     simple {{name}} substitution (hb_render_template, html_escape).     *)
(***************************************************************************)
EXTENDS Integers, Sequences, FiniteSets, TLC

VARIABLES phase, impls, live, last

vars == <<phase, impls, live, last>>

(***************************************************************************)
(* Bounds of the model.                                                    *)
(***************************************************************************)
\* longest text handed to the checked constructors and to include_js!
MaxLen == 3
\* number of distinct validated texts alive at the same time
MaxLive == 1

(***************************************************************************)
(* Tokens and texts.                                                       *)
(***************************************************************************)
Idents == {"x", "lt", "amp"}
Nums   == {"42"}
BinOps == {"<", "&"}

\* the texts given to JSStr::new, JSString::new and include_js!
Scripts ==
    { <<>>,
      <<"x", ";">>,
      <<"x", ".", "x">>,
      <<"42", ".", "x">>,
      <<"let", "x", "=">>,
      <<".", "x">>,
      <<"[", "]", ".", "x">>,
      <<"[", "42", "]", ";">> }

Texts == {t \in Scripts : Len(t) <= MaxLen}

(***************************************************************************)
(* boa::parse(js, false): the syntax oracle.  A deterministic automaton    *)
(* over statements                                                         *)
(*     Stmt   ::= ";" | "let" Ident "=" Expr ";" | Expr ";"                *)
(*     Expr   ::= Member (BinOp Member)*                                   *)
(*     Member ::= Num | (Ident | "[" "]") ("." Ident)*                     *)
(* with the last ";" of the input optional (semicolon insertion at the     *)
(* end of input).  A numeric literal directly followed by "." Ident does   *)
(* not parse, as 42.length does not in JavaScript.                         *)
(***************************************************************************)
Step(q, tok) ==
    CASE q = "S" /\ tok = ";"        -> "S"
      [] q = "S" /\ tok = "let"      -> "L1"
      [] q = "L1" /\ tok \in Idents  -> "L2"
      [] q = "L2" /\ tok = "="       -> "X"
      [] q \in {"S", "X"} /\ tok \in Idents -> "E"
      [] q \in {"S", "X"} /\ tok \in Nums   -> "N"
      [] q \in {"S", "X"} /\ tok = "["      -> "A"
      [] q = "A" /\ tok = "]"        -> "E"
      [] q = "E" /\ tok = "."        -> "M"
      [] q = "M" /\ tok \in Idents   -> "E"
      [] q \in {"E", "N"} /\ tok \in BinOps -> "X"
      [] q \in {"E", "N"} /\ tok = ";"      -> "S"
      [] OTHER -> "err"

RECURSIVE Run(_, _, _)
\* the automaton's state after js[i..], or the position where it got stuck
Run(q, js, i) ==
    IF i > Len(js) THEN [state |-> q, pos |-> i]
    ELSE LET n == Step(q, js[i])
         IN  IF n = "err" THEN [state |-> "err", pos |-> i]
             ELSE Run(n, js, i + 1)

NoError == [ok |-> TRUE, kind |-> "none", pos |-> 0]

\* Result<StatementList, ParseError>: the error has a kind and a position
boa_parse(js) ==
    LET r == Run("S", js, 1)
    IN  IF r.state \in {"S", "E", "N"} THEN NoError
        ELSE IF r.state = "err"
             THEN [ok |-> FALSE, kind |-> "Unexpected", pos |-> r.pos]
             ELSE [ok |-> FALSE, kind |-> "AbruptEnd", pos |-> r.pos]

(***************************************************************************)
(* Validated text: include_js_core.                                        *)
(* A JSStr is its `data`, a JSString its `code`; both are kept in `text`.  *)
(***************************************************************************)
NoVal == [ty |-> "none", text |-> <<>>]

\* transmute of &str to &JSStr
JSStr_new_unchecked(js) == [ty |-> "JSStr", text |-> js]

JSString_new_unchecked(code) == [ty |-> "JSString", text |-> code]

\* a checked constructor's Result, with the texts it handed to boa::parse
Checked(p, val, js) ==
    [ok |-> p.ok, val |-> IF p.ok THEN val ELSE NoVal, err |-> p, parsed |-> <<js>>]

\* mutant: the text is wrapped without looking at the parse result
JSStr_new_no_check(js) ==
    [ok |-> TRUE, val |-> JSStr_new_unchecked(js), err |-> NoError, parsed |-> <<js>>]

JSStr_new(js) ==
    LET p == boa_parse(js)
    IN  Checked(p, JSStr_new_unchecked(js), js)

as_str(v) == v.text

\* <&JSStr as TryFrom<&str>>::try_from
JSStr_try_from(value) == JSStr_new(value)

\* str::to_owned copies the text, JSString::new_unchecked wraps the copy
to_owned(v) == JSString_new_unchecked(as_str(v))

JSString_new(code) ==
    LET r == JSStr_new(code)
    IN  IF r.ok THEN [r EXCEPT !.val = [ty |-> "JSString", text |-> code]]
        ELSE r

JSString_try_from(value) == JSString_new(value)

\* mutant: the returned String is terminated with a semicolon
into_string_terminated(v) == v.text \o <<";">>

into_string(v) == v.text

\* Borrow<JSStr>, Deref and AsRef<JSStr> for JSString
borrow(v) == JSStr_new_unchecked(v.text)

deref(v) == JSStr_new_unchecked(v.text)

as_ref(v) == IF v.ty = "JSString" THEN borrow(v) ELSE v

(***************************************************************************)
(* Templates.  A template is a sequence of segments: a literal token or a  *)
(* placeholder {{name}}.  The data given to the engine is a set of keys    *)
(* with the textual form of each key's value.                              *)
(***************************************************************************)
Names == {"a", "b", "c"}

Lit(tok) == [kind |-> "lit", v |-> tok]
Ph(name) == [kind |-> "ph", v |-> name]

Placeholders(content) ==
    {content[i].v : i \in {j \in 1..Len(content) : content[j].kind = "ph"}}

\* the JSON rendering of the empty array the derive zips every field with
EmptyArray == <<"[", "]">>

Data(keys, f) == [keys |-> keys, val |-> [n \in Names |-> IF n \in keys THEN f[n] ELSE <<>>]]

NoData == Data({}, [n \in Names |-> <<>>])

\* Handlebars::new() escapes what {{name}} inserts with html_escape
html_escape_tok(tok) ==
    CASE tok = "<" -> <<"&", "lt", ";">>
      [] tok = "&" -> <<"&", "amp", ";">>
      [] OTHER     -> <<tok>>

RECURSIVE html_escape(_)
html_escape(text) ==
    IF text = <<>> THEN <<>>
    ELSE html_escape_tok(Head(text)) \o html_escape(Tail(text))

\* mutant: strict mode is left off
strict_mode_off == FALSE

\* h.set_strict_mode(true)
strict_mode == TRUE

RECURSIVE Expand(_, _, _)
\* Handlebars::render_template from segment i on: the first missing name
\* is a RenderError in strict mode and renders as nothing otherwise
Expand(content, data, i) ==
    IF i > Len(content) THEN [ok |-> TRUE, text |-> <<>>, missing |-> ""]
    ELSE LET seg == content[i]
             rest == Expand(content, data, i + 1)
         IN  IF seg.kind = "ph" /\ seg.v \notin data.keys /\ strict_mode
             THEN [ok |-> FALSE, text |-> <<>>, missing |-> seg.v]
             ELSE IF ~rest.ok THEN rest
             ELSE LET here == IF seg.kind = "lit" THEN <<seg.v>>
                              ELSE IF seg.v \in data.keys
                                   THEN html_escape(data.val[seg.v])
                                   ELSE <<>>
                  IN  [rest EXCEPT !.text = here \o rest.text]

hb_render_template(content, data) == Expand(content, data, 1)

(***************************************************************************)
(* The macros of include_js_codegen.  A macro that panics is a compile     *)
(* error: the program is not built.                                        *)
(***************************************************************************)
\* read_to_string_relative: panics when the file does not exist
read_to_string_relative(file) ==
    IF file.exists THEN [ok |-> TRUE, content |-> file.content, msg |-> ""]
    ELSE [ok |-> FALSE, content |-> <<>>, msg |-> "does not exist"]

Expansion(ok, val, parsed, msg) == [ok |-> ok, val |-> val, parsed |-> parsed, msg |-> msg]

\* include_js!: boa::parse(..).expect("syntax error"), then the quoted
\* unsafe { JSStr::new_unchecked(#content) }
include_js(file) ==
    LET rd == read_to_string_relative(file)
    IN  IF ~rd.ok THEN Expansion(FALSE, NoVal, <<>>, rd.msg)
        ELSE IF ~boa_parse(rd.content).ok
             THEN Expansion(FALSE, NoVal, <<rd.content>>, "syntax error")
             ELSE Expansion(TRUE, JSStr_new_unchecked(rd.content), <<rd.content>>, "")

\* template::struct_field_names: named fields only
struct_field_names(input) ==
    IF input.shape = "named" THEN [ok |-> TRUE, names |-> input.fields, msg |-> ""]
    ELSE [ok |-> FALSE, names |-> {}, msg |-> "only normal struct supported"]

\* mutant: every field name with 42 instead of []
stand_in_data_number(names) == Data(names, [n \in Names |-> <<"42">>])

\* the HashMap<String, [(); 0]> of the derive: every field name with []
stand_in_data(names) == Data(names, [n \in Names |-> EmptyArray])

\* mutant: the impl is generated without parsing the expanded template
derive_js_template_no_parse(input) ==
    LET rd == read_to_string_relative(input.file)
        fn == IF input.shape = "enum"
              THEN [ok |-> FALSE, names |-> {}, msg |-> "only structs supported"]
              ELSE struct_field_names(input)
        expanded == hb_render_template(rd.content, stand_in_data(fn.names))
    IN  IF ~rd.ok THEN Expansion(FALSE, NoVal, <<>>, rd.msg)
        ELSE IF ~fn.ok THEN Expansion(FALSE, NoVal, <<>>, fn.msg)
        ELSE IF ~expanded.ok
             THEN Expansion(FALSE, NoVal, <<>>, "error rendering template")
        ELSE Expansion(TRUE, NoVal, <<>>, "")

\* #[derive(JSTemplate)]: reads the template, renders it in strict mode with
\* every field set to [], parses the result once and generates the impl
derive_js_template(input) ==
    LET rd == read_to_string_relative(input.file)
        fn == IF input.shape = "enum"
              THEN [ok |-> FALSE, names |-> {}, msg |-> "only structs supported"]
              ELSE struct_field_names(input)
        expanded == hb_render_template(rd.content, stand_in_data(fn.names))
    IN  IF ~rd.ok THEN Expansion(FALSE, NoVal, <<>>, rd.msg)
        ELSE IF ~fn.ok THEN Expansion(FALSE, NoVal, <<>>, fn.msg)
        ELSE IF ~expanded.ok
             THEN Expansion(FALSE, NoVal, <<>>, "error rendering template")
        ELSE IF ~boa_parse(expanded.text).ok
             THEN Expansion(FALSE, NoVal, <<expanded.text>>, "syntax error")
        ELSE Expansion(TRUE, NoVal, <<expanded.text>>, "")

\* mutant: the rendered String goes through the checked JSString::new
render_template_checked(content, self) ==
    LET s == hb_render_template(content, self)
        r == JSString_new(s.text)
    IN  IF ~s.ok THEN Expansion(FALSE, NoVal, <<>>, "unwrap on Err")
        ELSE Expansion(r.ok, r.val, r.parsed, IF r.ok THEN "" ELSE "syntax error")

\* the generated JSTemplate::render_template(&self): self's serialized form
\* is rendered in strict mode, the Result unwrapped, the String wrapped with
\* JSString::new_unchecked
render_template(content, self) ==
    LET s == hb_render_template(content, self)
    IN  IF ~s.ok THEN Expansion(FALSE, NoVal, <<>>, "unwrap on Err")
        ELSE Expansion(TRUE, JSString_new_unchecked(s.text), <<>>, "")

(***************************************************************************)
(* Inputs.                                                                 *)
(***************************************************************************)
NoFile == [exists |-> FALSE, content |-> <<>>]
File(content) == [exists |-> TRUE, content |-> content]

\* the JavaScript files include_js! is applied to
ScriptFiles == {NoFile} \cup {File(t) : t \in Texts}

\* the template files #[include_js(template = ..)] names
Templates ==
    { <<Ph("a"), Lit("."), Lit("x"), Lit(";")>>,
      <<Lit("let"), Lit("x"), Lit("="), Ph("a"), Lit(";")>>,
      <<Ph("a"), Lit("<"), Ph("b"), Lit(";")>>,
      <<Lit("x"), Lit(";")>>,
      <<Ph("a"), Ph("b")>>,
      <<Lit("let"), Lit("x"), Lit("="), Ph("a"), Lit(".")>> }

NoInput == [shape |-> "none", file |-> NoFile, fields |-> {}]

FieldSets == {{"a"}, {"a", "b"}, {"a", "b", "c"}}

DeriveInputs ==
    [shape : {"named"}, file : {File(t) : t \in Templates}, fields : FieldSets]
    \cup [shape : {"tuple", "enum"}, file : {File(<<Lit("x"), Lit(";")>>)}, fields : {{}}]
    \cup [shape : {"named"}, file : {NoFile}, fields : {{"a"}}]

\* textual forms of field values: a number and a comparison
Values == {<<"42">>, <<"x", "<", "x">>}

\* what Serialize gives for self: a set of keys and a value for each
Sers ==
    {Data(K, f) : K \in SUBSET Names,
                  f \in {g \in [Names -> Values] : g["c"] = <<"42">>}}

(***************************************************************************)
(* State: the build phase expands the macros, then the program runs.       *)
(*   impls  the structs for which the derive generated JSTemplate          *)
(*   live   the validated texts alive                                      *)
(*   last   the last operation: its arguments and what it returned         *)
(***************************************************************************)
Op(op, input, arg, tpl, data, res, val, raw, err, parsed, msg) ==
    [op |-> op, input |-> input, arg |-> arg, tpl |-> tpl, data |-> data,
     res |-> res, val |-> val, raw |-> raw, err |-> err, parsed |-> parsed,
     msg |-> msg]

Init ==
    /\ phase = "build"
    /\ impls = {}
    /\ live = {}
    /\ last = Op("init", <<>>, NoVal, NoInput, NoData, "ok", NoVal, <<>>, NoError, <<>>, "")

\* the distinct texts alive; a view and a buffer of one text count once
Buffers == {v.text : v \in live}

Room(text) == text \in Buffers \/ Cardinality(Buffers) < MaxLive

IncludeJs(file) ==
    /\ phase = "build"
    /\ LET r == include_js(file)
       IN  /\ r.ok => Room(file.content)
           /\ last' = Op("include_js", file.content, NoVal, NoInput, NoData,
                         IF r.ok THEN "ok" ELSE "panic", r.val, <<>>, NoError,
                         r.parsed, r.msg)
           /\ live' = IF r.ok THEN live \cup {r.val} ELSE live
           /\ phase' = IF r.ok THEN phase ELSE "failed"
    /\ UNCHANGED impls

DeriveJSTemplate(input) ==
    /\ phase = "build"
    /\ impls = {}
    /\ LET r == derive_js_template(input)
       IN  /\ last' = Op("derive", <<>>, NoVal, input, NoData,
                         IF r.ok THEN "ok" ELSE "panic", NoVal, <<>>, NoError,
                         r.parsed, r.msg)
           /\ impls' = IF r.ok THEN impls \cup {input} ELSE impls
           /\ phase' = IF r.ok THEN phase ELSE "failed"
    /\ UNCHANGED live

BuildDone ==
    /\ phase = "build"
    /\ phase' = "run"
    /\ last' = Op("main", <<>>, NoVal, NoInput, NoData, "ok", NoVal, <<>>, NoError, <<>>, "")
    /\ UNCHANGED <<impls, live>>

\* a checked constructor returned r for the text js
Construct(op, js, r) ==
    /\ phase = "run"
    /\ r.ok => Room(js)
    /\ last' = Op(op, js, NoVal, NoInput, NoData, IF r.ok THEN "ok" ELSE "err",
                  r.val, <<>>, r.err, r.parsed, "")
    /\ live' = IF r.ok THEN live \cup {r.val} ELSE live
    /\ UNCHANGED <<phase, impls>>

JSStrNew(js) == Construct("JSStr::new", js, JSStr_new(js))

JSStrTryFrom(js) == Construct("JSStr::try_from", js, JSStr_try_from(js))

JSStringNew(js) == Construct("JSString::new", js, JSString_new(js))

JSStringTryFrom(js) == Construct("JSString::try_from", js, JSString_try_from(js))

\* an unchecked conversion of the live value v gave the validated text w
Convert(op, v, w) ==
    /\ phase = "run"
    /\ v \in live
    /\ Room(w.text)
    /\ last' = Op(op, v.text, v, NoInput, NoData, "ok", w, <<>>, NoError, <<>>, "")
    /\ live' = live \cup {w}
    /\ UNCHANGED <<phase, impls>>

ToOwned(v) == v.ty = "JSStr" /\ Convert("to_owned", v, to_owned(v))

Borrow(v) == v.ty = "JSString" /\ Convert("borrow", v, borrow(v))

Deref(v) == v.ty = "JSString" /\ Convert("deref", v, deref(v))

AsRef(v) == Convert("as_ref", v, as_ref(v))

\* JSStr::as_str, AsRef<str> and Into<&str>: &self.data
AsStr(v) ==
    /\ phase = "run"
    /\ v \in live
    /\ v.ty = "JSStr"
    /\ last' = Op("as_str", v.text, v, NoInput, NoData, "ok", NoVal, as_str(v), NoError, <<>>, "")
    /\ UNCHANGED <<phase, impls, live>>

\* JSString::into_string and Into<String>: the buffer is consumed
IntoString(v) ==
    /\ phase = "run"
    /\ v \in live
    /\ v.ty = "JSString"
    /\ last' = Op("into_string", v.text, v, NoInput, NoData, "ok", NoVal, into_string(v), NoError, <<>>, "")
    /\ live' = live \ {v}
    /\ UNCHANGED <<phase, impls>>

RenderTemplate(impl, self) ==
    /\ phase = "run"
    /\ impl \in impls
    /\ LET r == render_template(impl.file.content, self)
       IN  /\ r.ok => Room(r.val.text)
           /\ last' = Op("render_template", <<>>, NoVal, impl, self,
                         IF r.ok THEN "ok" ELSE "panic", r.val, <<>>, NoError,
                         r.parsed, r.msg)
           /\ live' = IF r.ok THEN live \cup {r.val} ELSE live
    /\ UNCHANGED <<phase, impls>>

\* a validated text goes out of scope
Drop(v) ==
    /\ phase = "run"
    /\ v \in live
    /\ live' = live \ {v}
    /\ last' = Op("drop", <<>>, NoVal, NoInput, NoData, "ok", NoVal, <<>>, NoError, <<>>, "")
    /\ UNCHANGED <<phase, impls>>

Next ==
    \/ \E file \in ScriptFiles : IncludeJs(file)
    \/ \E input \in DeriveInputs : DeriveJSTemplate(input)
    \/ BuildDone
    \/ \E js \in Texts : JSStrNew(js)
    \/ \E js \in Texts : JSStrTryFrom(js)
    \/ \E js \in Texts : JSStringNew(js)
    \/ \E js \in Texts : JSStringTryFrom(js)
    \/ \E v \in live : ToOwned(v)
    \/ \E v \in live : Borrow(v)
    \/ \E v \in live : Deref(v)
    \/ \E v \in live : AsRef(v)
    \/ \E v \in live : AsStr(v)
    \/ \E v \in live : IntoString(v)
    \/ \E impl \in impls, self \in Sers : RenderTemplate(impl, self)
    \/ \E v \in live : Drop(v)

Spec == Init /\ [][Next]_vars

(***************************************************************************)
(* Properties.                                                             *)
(***************************************************************************)
CheckedOps == {"JSStr::new", "JSStr::try_from", "JSString::new", "JSString::try_from"}

Rendered == last.op = "render_template"

RECURSIVE Neutralize(_)
\* the template with every placeholder replaced by the stand-in []
Neutralize(content) ==
    IF content = <<>> THEN <<>>
    ELSE (IF Head(content).kind = "lit" THEN <<Head(content).v>> ELSE <<"[", "]">>)
         \o Neutralize(Tail(content))

RECURSIVE Materialize(_, _)
\* the template with every placeholder replaced by its value's textual form
Materialize(content, data) ==
    IF content = <<>> THEN <<>>
    ELSE (IF Head(content).kind = "lit" THEN <<Head(content).v>>
          ELSE data.val[Head(content).v])
         \o Materialize(Tail(content), data)

\* the text is one expression: no statement separator, and it ends where an
\* expression may end
ExprShaped(text) ==
    /\ text # <<>>
    /\ \A i \in 1..Len(text) : text[i] # ";"
    /\ Run("X", text, 1).state \in {"E", "N"}

\* the derive's input is a named struct with a readable template whose
\* placeholders are fields and whose neutralized form the oracle accepts
Validated(input) ==
    /\ input.shape = "named"
    /\ input.file.exists
    /\ Placeholders(input.file.content) \subseteq input.fields
    /\ boa_parse(Neutralize(input.file.content)).ok

\* C1: every live validated text (JSStr or JSString) holds text the syntax
\* oracle accepts.
C1_LiveTextsParse == \A v \in live : boa_parse(v.text).ok

\* C2: a checked construction of t succeeds if and only if the oracle
\* accepts t; on success the value holds t, which parses again; on failure
\* the result is the oracle's error for t and no validated value.
C2_CheckedConstruction ==
    last.op \in CheckedOps =>
        /\ (last.res = "ok") <=> boa_parse(last.input).ok
        /\ last.res \in {"ok", "err"}
        /\ last.parsed = <<last.input>>
        /\ last.res = "ok" =>
              /\ last.val.text = last.input
              /\ last.val.ty = (IF last.op \in {"JSStr::new", "JSStr::try_from"}
                                THEN "JSStr" ELSE "JSString")
              /\ boa_parse(last.val.text).ok
              /\ last.val \in live
        /\ last.res = "err" =>
              /\ last.err = boa_parse(last.input)
              /\ ~last.err.ok
              /\ last.val = NoVal

C2_Witness ==
    /\ last.op = "JSString::new"
    /\ last.res = "err"
    /\ last.err = [ok |-> FALSE, kind |-> "Unexpected", pos |-> 2]
    /\ \E v \in live : v.ty = "JSString"

\* C3: a render with expression-shaped field values gives text the oracle
\* accepts.
C3_ExprValuesRenderValid ==
    (Rendered /\ last.res = "ok"
       /\ \A n \in last.data.keys : ExprShaped(last.data.val[n]))
    => boa_parse(last.val.text).ok

\* C4: a render hands nothing to the oracle and does not fail with a syntax
\* error; it fails only when a placeholder has no value; the template it
\* renders was validated at derive time.
C4_RenderNoOracle ==
    Rendered =>
        /\ last.parsed = <<>>
        /\ last.err = NoError
        /\ last.res \in {"ok", "panic"}
        /\ last.res # "ok" =>
              ~(Placeholders(last.tpl.file.content) \subseteq last.data.keys)
        /\ last.tpl \in impls
        /\ Validated(last.tpl)

C4_Witness ==
    /\ Rendered
    /\ last.res = "ok"
    /\ ~boa_parse(last.val.text).ok

\* C5: when the engine fails during a render, the failure is returned as an
\* error value, not a panic, and no validated text is produced.
C5_RenderFailureIsValue ==
    (Rendered /\ ~hb_render_template(last.tpl.file.content, last.data).ok)
    => (last.res = "err" /\ last.val = NoVal)

C7_NoRenderWithoutValidation ==
    /\ \A i \in impls : Validated(i)
    /\ Rendered => (last.tpl \in impls /\ phase = "run")
    /\ (last.op = "derive" /\ ~Validated(last.tpl)) =>
          (last.res = "panic" /\ impls = {} /\ phase = "failed")
    /\ (last.op = "include_js" /\ ~boa_parse(last.input).ok) =>
          (last.res = "panic" /\ last.val = NoVal /\ phase = "failed")
    /\ phase = "failed" =>
          (last.op \in {"derive", "include_js"} /\ last.res = "panic")

C7_Witness ==
    /\ last.op = "derive"
    /\ last.msg = "syntax error"
    /\ Placeholders(last.tpl.file.content) \subseteq last.tpl.fields
    /\ phase = "failed"
    /\ impls = {}

\* C8: no operation changes a validated text: the checked constructors keep
\* the text they were given, to_owned, borrow, deref and as_ref give a value
\* over the text of their argument, as_str and into_string return it.
C8_RoundTrip ==
    /\ (last.op \in CheckedOps /\ last.res = "ok") =>
          (as_str(last.val) = last.input /\ into_string(last.val) = last.input)
    /\ last.op = "to_owned" =>
          (last.val.ty = "JSString" /\ as_str(deref(last.val)) = last.arg.text)
    /\ last.op \in {"borrow", "deref", "as_ref"} =>
          (last.val.ty = "JSStr" /\ last.val.text = last.arg.text)
    /\ last.op \in {"as_str", "into_string"} => last.raw = last.arg.text
    /\ last.op \in {"to_owned", "borrow", "deref", "as_ref", "as_str"} =>
          last.arg \in live

C8_Witness ==
    /\ last.op = "to_owned"
    /\ last.arg = [ty |-> "JSStr", text |-> <<"x", ".", "x">>]
    /\ last.val = [ty |-> "JSString", text |-> <<"x", ".", "x">>]
    /\ {last.arg, last.val} \subseteq live

\* C9: a render's text is the template with its literal segments unchanged
\* and each placeholder replaced by exactly the textual form of its value.
C9_Materialize ==
    (Rendered /\ last.res = "ok")
    => last.val.text = Materialize(last.tpl.file.content, last.data)

\* C10: the derive hands the oracle one text, the template with every
\* placeholder replaced by []; when the template does not expand (a
\* placeholder is no field, or the input is no named struct or has no file)
\* it hands the oracle nothing.
C10_NeutralizedSubmitted ==
    last.op = "derive" =>
        LET input == last.tpl
            expands == /\ input.shape = "named"
                       /\ input.file.exists
                       /\ Placeholders(input.file.content) \subseteq input.fields
        IN  /\ expands => last.parsed = <<Neutralize(input.file.content)>>
            /\ ~expands => (last.parsed = <<>> /\ last.res = "panic")
            /\ (last.res = "ok") <=> Validated(input)

C10_Witness ==
    /\ last.op = "derive"
    /\ last.res = "ok"
    /\ Placeholders(last.tpl.file.content) = {"a", "b"}
    /\ last.parsed = << <<"[", "]", "<", "[", "]", ";">> >>

====
